---- MODULE Spec2Model ----
(***************************************************************************)
(* Model of the dialect classifier of arabesque-speech-scribe:             *)
(*   src/src/components/DialectClassifier.tsx                              *)
(*     classifyDialect, classifyArabicByKeywords, classifyEnglishByKeywords *)
(*                                                                         *)
(* Numbers.  Confidences and scores are JavaScript doubles.  They are      *)
(* modelled as integers in units of 0.0001 (0.3 is 3000, 0.05 is 500).     *)
(* Every literal of the source is a multiple of 0.01, so a value that is   *)
(* not a multiple of 100 units never stands for a decimal: it stands for   *)
(* the double one rounding step away from the decimal next to it (8999 is  *)
(* 0.8999999999999999, the double that 0.3 + 0.3 + 0.3 evaluates to).      *)
(* FAdd is the double addition on this representation.                     *)
(*                                                                         *)
(* Text.  A text is a sequence of tokens typed with single spaces between  *)
(* them.  String.prototype.includes is modelled by Includes: a marker      *)
(* occurs in the text iff it occurs inside one of the tokens.  No marker   *)
(* of the dictionaries contains a space, no marker is a substring of       *)
(* another marker, and no marker straddles two space-separated markers, so *)
(* for these tokens this is exactly substring containment.                 *)
(*                                                                         *)
(* Arabic markers are written in transliteration (TLA+ strings are ASCII): *)
(*   egyptian   ar:eih إيه, ar:izzayak إزيك, ar:izzayyak إزايك, ar:yalla يلا,   *)
(*              ar:keda كدة, ar:asl أصل, ar:alashan علشان                     *)
(*   levantine  ar:shu شو, ar:kifak كيفك, ar:biddi بدي, ar:heik هيك,         *)
(*              ar:mishan مشان, ar:am عم                                     *)
(*   gulf       ar:shlonak شلونك, ar:wesh وش, ar:leish ليش, ar:aad عاد,      *)
(*              ar:zein زين, ar:abi أبي                                      *)
(*   maghrebi   ar:kifash كيفاش, ar:shhal شحال, ar:bghit بغيت, ar:dert درت,  *)
(*              ar:mezyan مزيان                                              *)
(***************************************************************************)
EXTENDS Integers, Sequences, FiniteSets, TLC

VARIABLES
    kwPipeline,   \* which keyword pipeline the current direct call runs
    kwText,       \* its argument `text`
    kwPc,         \* "start" before the call, "done" after it returned
    scores,       \* the `scores` table of the latest call (lines 65-70, 107-112)
    kwOut,        \* the sequence the latest call returned
    memo,         \* a remembered earlier call: its text, pipeline and result
    cdText,       \* classifyDialect: the argument inputText
    cdLang,       \* classifyDialect: the argument selectedLanguage
    cdPc,         \* classifyDialect: "call", "awaiting" (line 28), "returned"
    cdResponse,   \* what supabase.functions.invoke settled with
    cdFallback,   \* the keyword pipeline the catch block ran, or "none"
    cdRet,        \* the sequence classifyDialect resolved with
    parPipeline,  \* interleaved calls: the keyword pipeline of each call
    parText,      \* interleaved calls: the argument `text` of each call
    parPc,        \* interleaved calls: "start", "scoring", "done" per call
    parIdx,       \* interleaved calls: the next dictionary entry to score
    parScores,    \* interleaved calls: the local `scores` table of each call
    parOut,       \* interleaved calls: the list each call returned
    uiText,       \* DialectClassifier state `text` (line 18)
    uiLanguage,   \* DialectClassifier state `language` (line 19)
    isAnalyzing,  \* DialectClassifier state (line 20)
    uiResults,    \* DialectClassifier state `results` (line 21)
    showFeedback, \* DialectClassifier state (line 22)
    toast,        \* the latest toast, NoToast before the first
    pending,      \* the classifyDialect calls awaited by handleAnalyze
    resultsOf,    \* the arguments of the call whose return is in `results`
    rating,       \* FeedbackForm state (line 23)
    isCorrect,    \* FeedbackForm state (line 24)
    comment,      \* FeedbackForm state (line 25)
    isSubmitting, \* FeedbackForm state (line 26)
    formGen,      \* how many times the FeedbackForm has been mounted
    inserts,      \* the dialect_feedback inserts awaited by handleSubmitFeedback,
                  \* each with the row it was given
    feedbackSubmitted  \* how many times handleFeedbackSubmitted has been called

kwVars == <<kwPipeline, kwText, kwPc, scores, kwOut, memo>>

cdVars == <<cdText, cdLang, cdPc, cdResponse, cdFallback, cdRet>>

parVars == <<parPipeline, parText, parPc, parIdx, parScores, parOut>>

formVars == <<rating, isCorrect, comment, isSubmitting, formGen>>

uiVars ==
    <<uiText, uiLanguage, isAnalyzing, uiResults, showFeedback, toast,
      pending, resultsOf, formVars, inserts, feedbackSubmitted>>

vars == <<kwVars, cdVars, parVars, uiVars>>

----------------------------------------------------------------------------
(* Bounds of the model *)

\* longest text, in tokens, given to a keyword pipeline
MaxLen == 4

\* longest text, in tokens, of the repeated-call specification
MaxDetLen == 2

\* longest text, in tokens, given to classifyDialect
MaxClassifyLen == 2

----------------------------------------------------------------------------
(* Program constants, in units of 0.0001 *)

ArabicWeight == 3000
ArabicCap == 9000
MsaConfidence == 5000
AmericanBaseline == 3000
\* faulty variant: the English scorer adds the Arabic weight
EnglishWeightAsArabic == ArabicWeight

EnglishWeight == 4000
BritishDefault == 2000
AustralianDefault == 1000
CanadianDefault == 1000
EnglishEpsilon == 500
\* faulty variant: slice(0, 2)
EnglishTopTwo == 3 - 1

EnglishTopN == 3

----------------------------------------------------------------------------
(* Dictionaries *)

ArabicDialects == <<"egyptian", "levantine", "gulf", "maghrebi">>

arabicKeywords ==
    [egyptian  |-> <<"ar:eih", "ar:izzayak", "ar:izzayyak", "ar:yalla",
                     "ar:keda", "ar:asl", "ar:alashan">>,
     levantine |-> <<"ar:shu", "ar:kifak", "ar:biddi", "ar:heik",
                     "ar:mishan", "ar:am">>,
     gulf      |-> <<"ar:shlonak", "ar:wesh", "ar:leish", "ar:aad",
                     "ar:zein", "ar:abi">>,
     maghrebi  |-> <<"ar:kifash", "ar:shhal", "ar:bghit", "ar:dert",
                     "ar:mezyan">>]

dialectMappings ==
    [egyptian  |-> [name |-> "Egyptian Arabic",
                    description |-> "Common in Egypt and widely understood across the Arab world"],
     levantine |-> [name |-> "Levantine Arabic",
                    description |-> "Used in Syria, Lebanon, Jordan, and Palestine"],
     gulf      |-> [name |-> "Gulf Arabic",
                    description |-> "Spoken in the Arabian Peninsula and Gulf states"],
     maghrebi  |-> [name |-> "Maghrebi Arabic",
                    description |-> "Spoken in North African countries"]]

EnglishDialects == <<"american", "british", "australian", "canadian">>

englishKeywords ==
    [american   |-> <<"color", "theater", "center", "aluminum", "mom", "gas",
                      "truck", "elevator">>,
     british    |-> <<"colour", "theatre", "centre", "aluminium", "mum",
                      "petrol", "lorry", "lift">>,
     australian |-> <<"mate", "bloke", "arvo", "brekkie", "mozzie", "barbie",
                      "ute">>,
     canadian   |-> <<"eh", "toque", "loonie", "double-double",
                      "chesterfield">>]

Range(s) == {s[i] : i \in DOMAIN s}

AllMarkers ==
    UNION {Range(arabicKeywords[d]) : d \in Range(ArabicDialects)}
    \cup UNION {Range(englishKeywords[d]) : d \in Range(EnglishDialects)}

----------------------------------------------------------------------------
(* Strings *)

\* The markers that occur, as written, inside one token.  A marker occurs
\* in itself; "minute" holds "ute" and "behind" holds "eh"; an upper-case
\* word holds no (lower-case) marker until it is lower-cased.
Occurs(token) ==
    IF token \in AllMarkers THEN {token}
    ELSE IF token = "minute" THEN {"ute"}
    ELSE IF token = "behind" THEN {"eh"}
    ELSE {}

\* String.prototype.toLowerCase on one token: Arabic letters and
\* lower-case words are unchanged.
Lower(token) ==
    IF token = "LORRY" THEN "lorry"
    ELSE IF token = "Colour" THEN "colour"
    ELSE token

toLowerCase(text) == [i \in DOMAIN text |-> Lower(text[i])]

\* text.includes(word)
Includes(text, word) == \E i \in DOMAIN text : word \in Occurs(text[i])

\* whitespace-only token
Blank == " "

RECURSIVE TrimLeft(_)
TrimLeft(text) ==
    IF text # <<>> /\ Head(text) = Blank THEN TrimLeft(Tail(text)) ELSE text

RECURSIVE TrimRight(_)
TrimRight(text) ==
    IF text # <<>> /\ text[Len(text)] = Blank
    THEN TrimRight(SubSeq(text, 1, Len(text) - 1))
    ELSE text

\* String.prototype.trim
Trim(text) == TrimRight(TrimLeft(text))

----------------------------------------------------------------------------
(* Double arithmetic *)

\* x + y on doubles.  The sums below are the ones of the score chains
\* (0.3 or 0.4 added repeatedly), and of a confidence plus the 0.1 threshold,
\* whose double result is not the double nearest to the decimal sum.
FAdd(x, y) ==
    CASE x = 6000  /\ y = 3000 -> 8999    \* 0.6 + 0.3 = 0.8999999999999999
      [] x = 8999  /\ y = 3000 -> 12000   \* 0.8999999999999999 + 0.3 = 1.2
      [] x = 8000  /\ y = 4000 -> 12001   \* 0.8 + 0.4 = 1.2000000000000002
      [] x = 12001 /\ y = 4000 -> 16000   \* 1.2000000000000002 + 0.4 = 1.6
      [] x = 28000 /\ y = 4000 -> 31999   \* 2.8 + 0.4 = 3.1999999999999997
      [] x = 23000 /\ y = 4000 -> 26999   \* 2.3 + 0.4 = 2.6999999999999997
      [] x = 2000  /\ y = 1000 -> 3001    \* 0.2 + 0.1 = 0.30000000000000004
      [] x = 7000  /\ y = 1000 -> 7999    \* 0.7 + 0.1 = 0.7999999999999999
      [] x = 8999  /\ y = 1000 -> 9999    \* 0.8999999999999999 + 0.1
      [] x = 11000 /\ y = 1000 -> 12001   \* 1.1 + 0.1 = 1.2000000000000002
      [] x = 12001 /\ y = 1000 -> 13001   \* 1.2000000000000002 + 0.1
      [] x = 16000 /\ y = 1000 -> 17001   \* 1.6 + 0.1 = 1.7000000000000002
      [] OTHER -> x + y

\* Math.min
Min(a, b) == IF a < b THEN a ELSE b

----------------------------------------------------------------------------
(* Scorer *)

\* faulty variant: one weight per occurrence of the word in the text
RECURSIVE ScoreWordsByCount(_, _, _, _)
ScoreWordsByCount(text, words, weight, acc) ==
    IF words = <<>> THEN acc
    ELSE LET n == Cardinality({i \in DOMAIN text :
                                  Head(words) \in Occurs(text[i])})
         IN  ScoreWordsByCount(text, Tail(words), weight, acc + n * weight)

\* words.forEach(word => { if (text.includes(word)) scores[dialect] += weight })
\* for one dialect: acc is scores[dialect]
RECURSIVE ScoreWords(_, _, _, _)
ScoreWords(text, words, weight, acc) ==
    IF words = <<>> THEN acc
    ELSE ScoreWords(text, Tail(words), weight,
                    IF Includes(text, Head(words))
                    THEN FAdd(acc, weight)
                    ELSE acc)

\* faulty variant: the table is created once and shared by all calls
sharedArabicScores ==
    IF scores # <<>> /\ "egyptian" \in DOMAIN scores
    THEN scores
    ELSE [egyptian |-> 0, levantine |-> 0, gulf |-> 0, maghrebi |-> 0]

\* const scores = { egyptian: 0, levantine: 0, gulf: 0, maghrebi: 0 }
arabicInitScores ==
    [egyptian |-> 0, levantine |-> 0, gulf |-> 0, maghrebi |-> 0]

\* Object.entries(keywords).forEach(...) of classifyArabicByKeywords
arabicScore(init, text) ==
    [d \in DOMAIN init |->
        ScoreWords(text, arabicKeywords[d], ArabicWeight, init[d])]

\* const scores = { american: 0.3, british: 0, australian: 0, canadian: 0 }
englishInitScores ==
    [american |-> AmericanBaseline, british |-> 0, australian |-> 0,
     canadian |-> 0]

\* Object.entries(keywords).forEach(...) of classifyEnglishByKeywords:
\* lowerText.includes(word.toLowerCase())
englishScore(init, text) ==
    LET lowerText == toLowerCase(text)
        lowerWords(d) ==
            [i \in DOMAIN englishKeywords[d] |-> Lower(englishKeywords[d][i])]
    IN  [d \in DOMAIN init |->
            ScoreWords(lowerText, lowerWords(d), EnglishWeight, init[d])]

----------------------------------------------------------------------------
(* Result builder *)

\* faulty variant: ascending comparator
byConfidenceAsc(a, b) == a.confidence - b.confidence

\* the comparator (a, b) => b.confidence - a.confidence
byConfidenceDesc(a, b) == b.confidence - a.confidence

\* faulty variant: r put in front of the elements it ties with
RECURSIVE InsertBeforeEqual(_, _)
InsertBeforeEqual(r, s) ==
    IF s = <<>> THEN <<r>>
    ELSE IF byConfidenceDesc(Head(s), r) < 0
         THEN <<Head(s)>> \o InsertBeforeEqual(r, Tail(s))
         ELSE <<r>> \o s

\* r put into a sorted sequence behind every element the comparator does
\* not order after it
RECURSIVE Insert(_, _)
Insert(r, s) ==
    IF s = <<>> THEN <<r>>
    ELSE IF byConfidenceDesc(Head(s), r) <= 0
         THEN <<Head(s)>> \o Insert(r, Tail(s))
         ELSE <<r>> \o s

\* Array.prototype.sort with that comparator (stable since ES2019)
RECURSIVE SortResults(_)
SortResults(s) ==
    IF s = <<>> THEN <<>>
    ELSE Insert(s[Len(s)], SortResults(SubSeq(s, 1, Len(s) - 1)))

\* faulty variant: no truncation
NoSlice(s, n) == s

\* Array.prototype.slice(0, n)
Slice(s, n) == SubSeq(s, 1, Min(n, Len(s)))

\* faulty variant: no `|| dialect`, a missing entry gives undefined
nameOrUndefined(dialect) ==
    IF dialect \in DOMAIN dialectMappings
    THEN dialectMappings[dialect].name
    ELSE "undefined"

\* dialectMappings[dialect]?.name || dialect
displayName(dialect) ==
    IF dialect \in DOMAIN dialectMappings
    THEN dialectMappings[dialect].name
    ELSE dialect

\* dialectMappings[dialect]?.description || "Detected based on keyword analysis"
displayDescription(dialect) ==
    IF dialect \in DOMAIN dialectMappings
    THEN dialectMappings[dialect].description
    ELSE "Detected based on keyword analysis"

\* faulty variant: no cap
uncappedConfidence(score) == score

\* the confidence of an Arabic result: Math.min(score, 0.9)
arabicConfidence(score) == Min(score, ArabicCap)

\* the synthetic result returned when no score is positive
msaFallback ==
    <<[dialect |-> "Modern Standard Arabic",
       confidence |-> MsaConfidence,
       description |-> "Default classification - formal Arabic"]>>

\* faulty variant: score >= 0
nonNegativeScore(e) == e.score >= 0

\* the filter ([_, score]) => score > 0
positiveScore(e) == e.score > 0

\* Object.entries(scores): the [dialect, score] pairs in key order
scoreEntries(keys, sc) ==
    [i \in DOMAIN keys |-> [dialect |-> keys[i], score |-> sc[keys[i]]]]

\* the map callback ([dialect, score]) => ({ dialect, confidence, description })
arabicToResult(e) ==
    [dialect |-> displayName(e.dialect),
     confidence |-> arabicConfidence(e.score),
     description |-> displayDescription(e.dialect)]

\* faulty variant: the list is cut to three like the English one
arabicResultsTopThree(entries) ==
    LET kept == SelectSeq(entries, positiveScore)
        mapped == [i \in DOMAIN kept |-> arabicToResult(kept[i])]
        results == Slice(SortResults(mapped), EnglishTopN)
    IN  IF Len(results) > 0 THEN results ELSE msaFallback

\* .filter(...).map(...).sort(...) on the entries, and the fallback
arabicResultsOfEntries(entries) ==
    LET kept == SelectSeq(entries, positiveScore)
        mapped == [i \in DOMAIN kept |-> arabicToResult(kept[i])]
        results == SortResults(mapped)
    IN  IF Len(results) > 0 THEN results ELSE msaFallback

\* Object.entries(scores).filter(...).map(...).sort(...) and the fallback
arabicResults(sc) ==
    arabicResultsOfEntries(scoreEntries(ArabicDialects, sc))

classifyArabicByKeywords(text) ==
    arabicResults(arabicScore(arabicInitScores, text))

\* faulty variant: no default
NoDefault(x, d) == x

\* x || d on numbers: 0 is falsy
OrDefault(x, d) == IF x = 0 THEN d ELSE x

\* faulty variant: the threshold is the smallest default
aboveDefault(r) == r.confidence > AustralianDefault

\* result.confidence > 0.05
aboveEpsilon(r) == r.confidence > EnglishEpsilon

\* the four-item list, .filter(...).sort(...).slice(0, 3)
englishResults(sc) ==
    LET four ==
          <<[dialect |-> "American English",
             confidence |-> sc.american,
             description |-> "Standard American pronunciation and vocabulary"],
            [dialect |-> "British English",
             confidence |-> OrDefault(sc.british, BritishDefault),
             description |-> "Received Pronunciation and British vocabulary"],
            [dialect |-> "Australian English",
             confidence |-> OrDefault(sc.australian, AustralianDefault),
             description |-> "Distinctive Australian accent and expressions"],
            [dialect |-> "Canadian English",
             confidence |-> OrDefault(sc.canadian, CanadianDefault),
             description |-> "Canadian pronunciation with some British influences"]>>
    IN  Slice(SortResults(SelectSeq(four, aboveEpsilon)), EnglishTopN)

classifyEnglishByKeywords(text) ==
    englishResults(englishScore(englishInitScores, text))

----------------------------------------------------------------------------
(* Direct calls of the keyword pipelines: one call per behaviour, its *)
(* argument drawn in the initial state                                *)

ArabicVocabulary ==
    {"ar:eih", "ar:izzayak", "ar:yalla", "ar:keda",   \* egyptian 0, 1, 3, 4
     "ar:shu",                                        \* levantine 0
     "ar:wesh", "ar:leish",                           \* gulf 1, 2
     "ar:kifash",                                     \* maghrebi 0
     "hello", Blank}

EnglishVocabulary ==
    {"color", "mom",          \* american 0, 4
     "colour", "mum", "LORRY", \* british 0, 4, 6 (upper case)
     "mate", "minute",        \* australian 0, and "ute" inside a word
     "eh",                    \* canadian 0
     "hello", Blank}

Pipelines == {"arabic", "english"}

Vocabulary(p) == IF p = "arabic" THEN ArabicVocabulary ELSE EnglishVocabulary

Texts(V, n) == UNION {[1..k -> V] : k \in 0..n}

NoCall == <<>>

\* JavaScript null
Null == [type |-> "null"]

\* the calls that may be interleaved
Calls == {1, 2}

\* no interleaved calls are made
ParParked ==
    /\ parPipeline = [c \in Calls |-> "arabic"]
    /\ parText = [c \in Calls |-> <<>>]
    /\ parPc = [c \in Calls |-> "parked"]
    /\ parIdx = [c \in Calls |-> 1]
    /\ parScores = [c \in Calls |-> NoCall]
    /\ parOut = [c \in Calls |-> <<>>]

\* toast({ title, description })
Toast(title, description) == [title |-> title, description |-> description]

\* no toast has been shown
NoToast == Toast("none", "")

\* the FeedbackForm when it mounts (lines 23-26)
FormInitial ==
    /\ rating = 0
    /\ isCorrect = Null
    /\ comment = ""
    /\ isSubmitting = FALSE

\* the DialectClassifier when it mounts (lines 18-22), nothing awaited
UiInitial ==
    /\ uiText = <<>>
    /\ uiLanguage = "arabic"
    /\ isAnalyzing = FALSE
    /\ uiResults = <<>>
    /\ showFeedback = FALSE
    /\ toast = NoToast
    /\ pending = <<>>
    /\ resultsOf = NoCall
    /\ FormInitial
    /\ formGen = 0
    /\ inserts = <<>>
    /\ feedbackSubmitted = 0

\* classifyDialect is not called
CdParked ==
    /\ cdText = <<>>
    /\ cdLang = "arabic"
    /\ cdPc = "parked"
    /\ cdResponse = NoCall
    /\ cdFallback = "none"
    /\ cdRet = <<>>

InitKw ==
    /\ CdParked
    /\ ParParked
    /\ UiInitial
    /\ kwPipeline \in Pipelines
    /\ kwText \in Texts(Vocabulary(kwPipeline), MaxLen)
    /\ kwPc = "start"
    /\ scores = NoCall
    /\ kwOut = <<>>
    /\ memo = NoCall

\* classifyArabicByKeywords(kwText)
CallArabic ==
    /\ kwPc = "start"
    /\ kwPipeline = "arabic"
    /\ scores' = arabicScore(arabicInitScores, kwText)
    /\ kwOut' = arabicResults(scores')
    /\ kwPc' = "done"
    /\ UNCHANGED <<kwPipeline, kwText, memo, cdVars, parVars, uiVars>>

\* classifyEnglishByKeywords(kwText)
CallEnglish ==
    /\ kwPc = "start"
    /\ kwPipeline = "english"
    /\ scores' = englishScore(englishInitScores, kwText)
    /\ kwOut' = englishResults(scores')
    /\ kwPc' = "done"
    /\ UNCHANGED <<kwPipeline, kwText, memo, cdVars, parVars, uiVars>>

NextKw == CallArabic \/ CallEnglish

SpecKw == InitKw /\ [][NextKw]_vars

----------------------------------------------------------------------------
(* Properties of the keyword pipelines (SpecKw) *)

KwDone(p) == kwPc = "done" /\ kwPipeline = p

HasDialect(out, name) == \E i \in DOMAIN out : out[i].dialect = name

\* indices of the markers of Arabic dialect d that the text contains
ArabicMatched(d, text) ==
    {i \in DOMAIN arabicKeywords[d] : Includes(text, arabicKeywords[d][i])}

\* indices of the markers of English dialect d that the lower-cased text contains
EnglishMatched(d, text) ==
    {i \in DOMAIN englishKeywords[d] :
        Includes(toLowerCase(text), englishKeywords[d][i])}

NoArabicMarker(text) ==
    \A d \in Range(ArabicDialects) : ArabicMatched(d, text) = {}

\* C1: every result returned by a keyword pipeline has a confidence c with
\* 0 <= c <= 1.
C1_ConfidenceInUnitInterval ==
    kwPc = "done" =>
        \A i \in DOMAIN kwOut :
            0 <= kwOut[i].confidence /\ kwOut[i].confidence <= 10000

\* C2 (as stated): the sequence returned by classifyEnglishByKeywords always
\* includes an entry whose dialect is "American English".
C2_AlwaysAmerican ==
    KwDone("english") => HasDialect(kwOut, "American English")

\* C2 (amended): the sequence returned by classifyEnglishByKeywords includes
\* "American English" unless the British, Australian and Canadian scores all
\* exceed the American score, and then it does not.
C2_AmericanUnlessOutranked ==
    KwDone("english") =>
        (HasDialect(kwOut, "American English")
            <=> ~(/\ scores.british > scores.american
                  /\ scores.australian > scores.american
                  /\ scores.canadian > scores.american))

\* all three other dialects matched, American matched more, and is returned
C2_Witness ==
    /\ KwDone("english")
    /\ scores.british > 0 /\ scores.australian > 0 /\ scores.canadian > 0
    /\ HasDialect(kwOut, "American English")

\* C4: every confidence returned by classifyArabicByKeywords is at most 0.9,
\* however many markers of one dialect match.
C4_ArabicAtMostCap ==
    KwDone("arabic") => \A i \in DOMAIN kwOut : kwOut[i].confidence <= 9000

\* four markers of one dialect matched (score 1.2), reported as 0.9
C4_Witness ==
    /\ KwDone("arabic")
    /\ \E d \in Range(ArabicDialects) :
          Cardinality(ArabicMatched(d, kwText)) >= 4 /\ scores[d] > 9000
    /\ kwOut[1].confidence = 9000

\* C5: the sequence returned by a keyword pipeline is sorted non-increasing by
\* confidence.
C5_SortedNonIncreasing ==
    kwPc = "done" =>
        \A i \in 1..(Len(kwOut) - 1) :
            kwOut[i].confidence >= kwOut[i + 1].confidence

\* the sort moved a later dictionary entry in front of an earlier one
C5_Witness ==
    /\ KwDone("arabic")
    /\ Len(kwOut) >= 2
    /\ kwOut[1].dialect = "Gulf Arabic"
    /\ kwOut[2].dialect = "Egyptian Arabic"
    /\ kwOut[1].confidence > kwOut[2].confidence

\* the position-tiered weight of marker index i (0-based) of the claim
TierWeight(i) == IF i < 3 THEN 6000 ELSE IF i < 6 THEN 4000 ELSE 3000

RECURSIVE TierSum(_)
TierSum(S) ==
    IF S = {} THEN 0
    ELSE LET i == CHOOSE j \in S : TRUE
         IN  TierWeight(i - 1) + TierSum(S \ {i})

\* C7: a matched marker at index i of its dialect's marker list adds 0.6 if
\* i < 3, 0.4 if i < 6, else 0.3; a text containing only the Egyptian index-0
\* marker yields top result "Egyptian Arabic" with confidence 0.6.
C7_PositionTiered ==
    KwDone("arabic") =>
        /\ \A d \in Range(ArabicDialects) :
              scores[d] = TierSum(ArabicMatched(d, kwText))
        /\ (/\ ArabicMatched("egyptian", kwText) = {1}
            /\ \A d \in Range(ArabicDialects) \ {"egyptian"} :
                  ArabicMatched(d, kwText) = {})
           => /\ kwOut[1].dialect = "Egyptian Arabic"
              /\ kwOut[1].confidence = 6000

\* C8: classifyArabicByKeywords returns exactly the single result
\* {"Modern Standard Arabic", 0.5, "Default classification - formal Arabic"}
\* if and only if the text contains none of the Arabic markers; otherwise that
\* result does not appear.
C8_FallbackIffNoMarker ==
    KwDone("arabic") =>
        LET msa == [dialect |-> "Modern Standard Arabic",
                    confidence |-> 5000,
                    description |-> "Default classification - formal Arabic"]
        IN  /\ (kwOut = <<msa>>) <=> NoArabicMarker(kwText)
            /\ ~NoArabicMarker(kwText) =>
                  /\ \A i \in DOMAIN kwOut : kwOut[i] # msa
                  /\ ~HasDialect(kwOut, "Modern Standard Arabic")

\* a non-empty text without Arabic markers got the fallback
C8_Witness ==
    /\ KwDone("arabic")
    /\ Trim(kwText) # <<>>
    /\ NoArabicMarker(kwText)
    /\ Len(kwOut) = 1
    /\ kwOut[1].dialect = "Modern Standard Arabic"

\* C9: for every text that matches n >= 1 British markers and no American,
\* Australian or Canadian marker, the output is exactly
\* [British English 0.4*n, American English 0.3, Australian English 0.1].
\* The British confidence is the double that n additions of 0.4 give, which is
\* 0.4*n up to one rounding step (a difference of at most one unit here).
C9_BritishOnly ==
    LET n == Cardinality(EnglishMatched("british", kwText))
    IN  (/\ KwDone("english")
         /\ n >= 1
         /\ EnglishMatched("american", kwText) = {}
         /\ EnglishMatched("australian", kwText) = {}
         /\ EnglishMatched("canadian", kwText) = {})
        => /\ Len(kwOut) = 3
           /\ kwOut[1].dialect = "British English"
           /\ kwOut[1].confidence - 4000 * n \in {-1, 0, 1}
           /\ kwOut[1].description
                 = "Received Pronunciation and British vocabulary"
           /\ kwOut[2] =
                 [dialect |-> "American English", confidence |-> 3000,
                  description |-> "Standard American pronunciation and vocabulary"]
           /\ kwOut[3] =
                 [dialect |-> "Australian English", confidence |-> 1000,
                  description |-> "Distinctive Australian accent and expressions"]

\* two British markers, one of them typed in upper case: British 0.8 on top
C9_Witness ==
    /\ KwDone("english")
    /\ EnglishMatched("british", kwText) = {1, 7}
    /\ EnglishMatched("american", kwText) = {}
    /\ EnglishMatched("australian", kwText) = {}
    /\ EnglishMatched("canadian", kwText) = {}
    /\ kwOut[1].confidence = 8000

----------------------------------------------------------------------------
(* Repeated calls of the keyword pipelines: any number of calls, each with  *)
(* any argument.  The scores table is the one variable a call writes; each  *)
(* call starts from a new table (lines 65-70, 107-112).                     *)

DetVocabulary == {"ar:eih", "colour", "hello"}

DetTexts == Texts(DetVocabulary, MaxDetLen)

InitDet ==
    /\ CdParked
    /\ ParParked
    /\ UiInitial
    /\ kwPipeline = "arabic"
    /\ kwText = <<>>
    /\ kwPc = "start"
    /\ scores = NoCall
    /\ kwOut = <<>>
    /\ memo = NoCall

\* the history kept for the comparison: one earlier call is remembered, and
\* whether a call with another argument or pipeline came after it
Remember(p, t, out, keep) ==
    IF memo = NoCall
    THEN IF keep
         THEN [pipeline |-> p, text |-> t, out |-> out, between |-> FALSE]
         ELSE NoCall
    ELSE IF memo.pipeline = p /\ memo.text = t
         THEN memo
         ELSE [memo EXCEPT !.between = TRUE]

\* classifyArabicByKeywords(t), after any earlier calls
AgainArabic ==
    \E t \in DetTexts, keep \in BOOLEAN :
        /\ kwPipeline' = "arabic"
        /\ kwText' = t
        /\ scores' = arabicScore(arabicInitScores, t)
        /\ kwOut' = arabicResults(scores')
        /\ kwPc' = "done"
        /\ memo' = Remember("arabic", t, kwOut', keep)
        /\ UNCHANGED <<cdVars, parVars, uiVars>>

\* classifyEnglishByKeywords(t), after any earlier calls
AgainEnglish ==
    \E t \in DetTexts, keep \in BOOLEAN :
        /\ kwPipeline' = "english"
        /\ kwText' = t
        /\ scores' = englishScore(englishInitScores, t)
        /\ kwOut' = englishResults(scores')
        /\ kwPc' = "done"
        /\ memo' = Remember("english", t, kwOut', keep)
        /\ UNCHANGED <<cdVars, parVars, uiVars>>

NextDet == AgainArabic \/ AgainEnglish

SpecDet == InitDet /\ [][NextDet]_vars

----------------------------------------------------------------------------
(* classifyDialect (lines 26-47): the remote call first, a keyword pipeline *)
(* in the catch block                                                       *)

\* values of selectedLanguage: the two of the Select, and one other string
Languages == {"arabic", "english", "french"}

ClassifyVocabulary == {"ar:eih", "colour", "hello", Blank}

\* a non-empty results array of the edge function
RemoteResults ==
    <<[dialect |-> "Gulf Arabic", confidence |-> 7200,
       description |-> "remote"],
      [dialect |-> "Egyptian Arabic", confidence |-> 2100,
       description |-> "remote"]>>

\* What `await supabase.functions.invoke(...)` settles with: the promise
\* fulfils with { data, error } or rejects.  data is an object with a results
\* array (non-empty or empty), an object without a results property, or null.
RemoteResponses ==
    {[settled |-> "fulfilled",
      data |-> [type |-> "object", results |-> RemoteResults], error |-> Null],
     [settled |-> "fulfilled",
      data |-> [type |-> "object", results |-> <<>>], error |-> Null],
     [settled |-> "fulfilled",
      data |-> [type |-> "object"], error |-> Null],
     [settled |-> "fulfilled",
      data |-> Null, error |-> Null],
     [settled |-> "fulfilled",
      data |-> Null, error |-> [type |-> "object", name |-> "FunctionsHttpError"]],
     [settled |-> "rejected"]}

InitClassify ==
    /\ ParParked
    /\ UiInitial
    /\ kwPipeline = "arabic"
    /\ kwText = <<>>
    /\ kwPc = "start"
    /\ scores = NoCall
    /\ kwOut = <<>>
    /\ memo = NoCall
    /\ cdText \in Texts(ClassifyVocabulary, MaxClassifyLen)
    /\ cdLang \in Languages
    /\ cdPc = "call"
    /\ cdResponse = NoCall
    /\ cdFallback = "none"
    /\ cdRet = <<>>

\* line 28: supabase.functions.invoke('classify-dialect', ...) is called and
\* classifyDialect suspends at the await
Invoke ==
    /\ cdPc = "call"
    /\ cdPc' = "awaiting"
    /\ UNCHANGED <<cdText, cdLang, cdResponse, cdFallback, cdRet, kwVars,
                   parVars, uiVars>>

\* whether the try block (lines 28-37) throws on response r
TryThrows(r) ==
    \/ r.settled = "rejected"          \* the awaited promise rejected
    \/ r.error # Null                  \* if (error) throw error
    \/ r.data = Null                   \* data.results on null: TypeError

\* data.results || []
ResultsOrEmpty(data) ==
    IF "results" \in DOMAIN data THEN data.results ELSE <<>>

\* faulty variant: the branches of the catch block swapped
FallbackSwapped(selectedLanguage) ==
    IF selectedLanguage = "arabic" THEN "english" ELSE "arabic"

\* the catch block, lines 41-45: which pipeline
FallbackPipeline(selectedLanguage) ==
    IF selectedLanguage = "arabic" THEN "arabic" ELSE "english"

\* lines 32-46 once the awaited call has settled with r
Settle(r) ==
    /\ cdPc = "awaiting"
    /\ cdResponse' = r
    /\ cdPc' = "returned"
    /\ IF TryThrows(r)
       THEN /\ cdFallback' = FallbackPipeline(cdLang)
            /\ kwPipeline' = cdFallback'
            /\ kwText' = cdText
            /\ scores' = IF cdFallback' = "arabic"
                         THEN arabicScore(arabicInitScores, cdText)
                         ELSE englishScore(englishInitScores, cdText)
            /\ kwOut' = IF cdFallback' = "arabic"
                        THEN arabicResults(scores')
                        ELSE englishResults(scores')
            /\ kwPc' = "done"
            /\ cdRet' = kwOut'
            /\ UNCHANGED memo
       ELSE /\ cdRet' = ResultsOrEmpty(r.data)
            /\ cdFallback' = "none"
            /\ UNCHANGED kwVars
    /\ UNCHANGED <<cdText, cdLang, parVars, uiVars>>

RemoteSettles == \E r \in RemoteResponses : Settle(r)

NextClassify == Invoke \/ RemoteSettles

SpecClassify == InitClassify /\ [][NextClassify]_vars

\* C3: for every non-empty text and both languages, classifyDialect never
\* returns an empty sequence, whatever the remote call's outcome (results,
\* empty or missing results, error value, thrown exception).
C3_NeverEmpty ==
    (/\ cdPc = "returned"
     /\ Trim(cdText) # <<>>
     /\ cdLang \in {"arabic", "english"})
    => cdRet # <<>>

\* C6: a language value other than "arabic" or "english" passed to
\* classifyDialect fails fast with an InvalidArgument error (no remote call is
\* made and nothing is returned); no pipeline is chosen as a default for it.
C6_UnrecognizedLanguageFails ==
    cdLang \notin {"arabic", "english"} =>
        /\ cdPc \in {"call", "rejected:InvalidArgument"}
        /\ cdFallback = "none"

----------------------------------------------------------------------------
(* Further properties of classifyDialect (SpecClassify) *)

\* C11 (as stated): classifyDialect runs a keyword pipeline if and only if the
\* remote invocation returned an error or threw; when the remote call succeeds
\* its results are returned unchanged and no keyword scoring runs; on failure
\* the pipeline matching the selected language is the one used.
C11_FallbackIffErrorOrThrow ==
    /\ cdPc \in {"call", "awaiting"} => kwPc = "start" /\ cdFallback = "none"
    /\ cdPc = "returned" =>
          LET failed == \/ cdResponse.settled = "rejected"
                        \/ cdResponse.error # [type |-> "null"]
          IN  /\ (cdFallback # "none") <=> failed
              /\ ~failed =>
                    /\ kwPc = "start" /\ scores = <<>>
                    /\ "results" \in DOMAIN cdResponse.data
                          => cdRet = cdResponse.data.results
              /\ (failed /\ cdLang \in {"arabic", "english"})
                    => cdFallback = cdLang

\* C11 (amended): classifyDialect runs a keyword pipeline if and only if the
\* remote invocation returned an error, threw, or resolved with null data
\* (reading data.results then throws inside the try block); when the remote
\* call resolves with a data object its results are returned unchanged ([] when
\* it has none) and no keyword scoring runs; otherwise the Arabic pipeline is
\* the one used for "arabic" and the English pipeline for every other language
\* value, and its result is what classifyDialect returns.  No pipeline runs
\* before the remote call has settled.
C11_FallbackIffNoData ==
    /\ cdPc \in {"call", "awaiting"} => kwPc = "start" /\ cdFallback = "none"
    /\ cdPc = "returned" =>
          LET failed == \/ cdResponse.settled = "rejected"
                        \/ cdResponse.error # [type |-> "null"]
                        \/ cdResponse.data = [type |-> "null"]
          IN  /\ (cdFallback # "none") <=> failed
              /\ ~failed =>
                    /\ kwPc = "start" /\ scores = <<>>
                    /\ cdRet = IF "results" \in DOMAIN cdResponse.data
                               THEN cdResponse.data.results
                               ELSE <<>>
              /\ failed =>
                    /\ cdFallback = IF cdLang = "arabic" THEN "arabic"
                                    ELSE "english"
                    /\ kwPc = "done" /\ kwPipeline = cdFallback
                    /\ kwText = cdText
                    /\ cdRet = kwOut

\* the remote call returned an error value for an English text with a British
\* marker: the English pipeline ran and its result was returned
C11_Witness ==
    /\ cdPc = "returned"
    /\ cdLang = "english"
    /\ cdText = <<"colour">>
    /\ cdResponse.settled = "fulfilled"
    /\ cdResponse.error # [type |-> "null"]
    /\ cdFallback = "english"
    /\ cdRet[1].dialect = "British English"

----------------------------------------------------------------------------
(* Further properties of the keyword pipelines (SpecKw) *)

\* C12: the sequence returned by classifyEnglishByKeywords has length at
\* most 3.
C12_EnglishAtMostThree == KwDone("english") => Len(kwOut) <= 3

\* all four dialects matched a marker and three results came back
C12_Witness ==
    /\ KwDone("english")
    /\ \A d \in Range(EnglishDialects) : EnglishMatched(d, kwText) # {}
    /\ Len(kwOut) = 3

----------------------------------------------------------------------------
(* The result construction of classifyArabicByKeywords (lines 82-95) on a   *)
(* scores table that holds an identifier without a dialectMappings entry.   *)
(* The tables of the source give every scored identifier an entry, so the   *)
(* `?.name || dialect` branch is exercised here by a table with one more    *)
(* key.                                                                     *)

\* the keys of the table: the four of the source and one without metadata
MetaDialects == ArabicDialects \o <<"saudi_najdi">>

\* scores of no, one and four matched markers
MetaScores == {0, 3000, 12000}

InitMeta ==
    /\ CdParked
    /\ ParParked
    /\ UiInitial
    /\ kwPipeline = "arabic"
    /\ kwText = <<>>
    /\ kwPc = "start"
    /\ scores \in [Range(MetaDialects) -> MetaScores]
    /\ kwOut = <<>>
    /\ memo = NoCall

\* lines 82-95 on the table
BuildArabicResults ==
    /\ kwPc = "start"
    /\ kwOut' = arabicResultsOfEntries(scoreEntries(MetaDialects, scores))
    /\ kwPc' = "done"
    /\ UNCHANGED <<kwPipeline, kwText, scores, memo, cdVars, parVars, uiVars>>

NextMeta == BuildArabicResults

SpecMeta == InitMeta /\ [][NextMeta]_vars

\* C13: a scored Arabic identifier with score > 0 that has no entry in the
\* metadata table still appears in the output, with the raw identifier as
\* dialect name and the description "Detected based on keyword analysis".
C13_MetadataMiss ==
    (kwPc = "done" /\ scores["saudi_najdi"] > 0) =>
        /\ Cardinality({i \in DOMAIN kwOut :
                           kwOut[i].dialect = "saudi_najdi"}) = 1
        /\ \A i \in DOMAIN kwOut :
              kwOut[i].dialect = "saudi_najdi" =>
                 /\ kwOut[i].description = "Detected based on keyword analysis"
                 /\ kwOut[i].confidence =
                       IF scores["saudi_najdi"] > 9000 THEN 9000
                       ELSE scores["saudi_najdi"]

\* the identifier without metadata is listed beside one that has metadata
C13_Witness ==
    /\ kwPc = "done"
    /\ scores["saudi_najdi"] = 3000
    /\ scores["egyptian"] = 12000
    /\ Len(kwOut) = 2
    /\ kwOut[1].dialect = "Egyptian Arabic"
    /\ kwOut[2].dialect = "saudi_najdi"

----------------------------------------------------------------------------
(* Order, filtering and scoring of the keyword pipelines (SpecKw) *)

ArabicNames ==
    <<"Egyptian Arabic", "Levantine Arabic", "Gulf Arabic", "Maghrebi Arabic">>

EnglishNames ==
    <<"American English", "British English", "Australian English",
      "Canadian English">>

\* the position of a dialect name in its dictionary (0 when not listed)
DictIndex(names, name) ==
    IF \E k \in DOMAIN names : names[k] = name
    THEN CHOOSE k \in DOMAIN names : names[k] = name
    ELSE 0

\* results of equal confidence stand in dictionary order
TiesInDictOrder(names, out) ==
    \A i, j \in DOMAIN out :
        (i < j /\ out[i].confidence = out[j].confidence) =>
            DictIndex(names, out[i].dialect) < DictIndex(names, out[j].dialect)

\* the confidence of the k-th English candidate before the sort
EnglishCandidate(k) ==
    LET d == EnglishDialects[k]
        fixed == <<0, 2000, 1000, 1000>>
    IN  IF k > 1 /\ scores[d] = 0 THEN fixed[k] ELSE scores[d]

\* C17: the sort is stable: results of equal confidence appear in dictionary
\* order, and an English candidate cut off by the truncation neither
\* outranks a kept result nor ties with a kept result listed after it.
C17_StableTieBreak ==
    /\ KwDone("arabic") => TiesInDictOrder(ArabicNames, kwOut)
    /\ KwDone("english") =>
          /\ TiesInDictOrder(EnglishNames, kwOut)
          /\ \A k \in 1..4 :
                ~HasDialect(kwOut, EnglishNames[k]) =>
                    \A i \in DOMAIN kwOut :
                        \/ kwOut[i].confidence > EnglishCandidate(k)
                        \/ /\ kwOut[i].confidence = EnglishCandidate(k)
                           /\ DictIndex(EnglishNames, kwOut[i].dialect) < k

\* Australian and Canadian tie at 0.1 for the third place: Australian,
\* listed first, is kept and Canadian is cut off
C17_Witness ==
    /\ KwDone("english")
    /\ EnglishCandidate(3) = 1000
    /\ EnglishCandidate(4) = 1000
    /\ Len(kwOut) = 3
    /\ kwOut[3].dialect = "Australian English"
    /\ kwOut[3].confidence = 1000
    /\ ~HasDialect(kwOut, "Canadian English")

\* C18: when at least one marker matches, the Arabic output has exactly one
\* entry for each dialect with a marker contained in the text, and none for a
\* dialect without one.
C18_OneEntryPerMatchedDialect ==
    (KwDone("arabic") /\ ~NoArabicMarker(kwText)) =>
        /\ \A k \in 1..4 :
              Cardinality({i \in DOMAIN kwOut :
                              kwOut[i].dialect = ArabicNames[k]})
                 = IF ArabicMatched(ArabicDialects[k], kwText) # {}
                   THEN 1 ELSE 0
        /\ Len(kwOut) =
              Cardinality({k \in 1..4 :
                              ArabicMatched(ArabicDialects[k], kwText) # {}})

\* all four dialects matched, all four reported
C18_Witness ==
    /\ KwDone("arabic")
    /\ \A k \in 1..4 : ArabicMatched(ArabicDialects[k], kwText) # {}
    /\ Len(kwOut) = 4
    /\ \A k \in 1..4 : HasDialect(kwOut, ArabicNames[k])

\* x and y differ by at most one rounding step
Near(x, y) == x - y \in {-1, 0, 1}

\* C19: a dialect's score is its baseline plus one weight for each of its own
\* markers contained in the text, whatever the number of occurrences of a
\* marker and whatever markers of other dialects match.
C19_PresenceOnly ==
    /\ KwDone("arabic") =>
          \A d \in Range(ArabicDialects) :
              Near(scores[d], 3000 * Cardinality(ArabicMatched(d, kwText)))
    /\ KwDone("english") =>
          \A d \in Range(EnglishDialects) :
              Near(scores[d],
                   (IF d = "american" THEN 3000 ELSE 0)
                     + 4000 * Cardinality(EnglishMatched(d, kwText)))

\* one Egyptian marker occurring twice beside a Levantine marker
C19_Witness ==
    /\ KwDone("arabic")
    /\ Cardinality({i \in DOMAIN kwText : kwText[i] = "ar:eih"}) >= 2
    /\ ArabicMatched("egyptian", kwText) = {1}
    /\ ArabicMatched("levantine", kwText) # {}
    /\ scores.egyptian = 3000
    /\ scores.levantine = 3000

NoEnglishMarker(text) ==
    \A d \in Range(EnglishDialects) : EnglishMatched(d, text) = {}

\* C20: a reported non-baseline English dialect has its fixed default
\* confidence (British 0.2, Australian 0.1, Canadian 0.1) when its score is
\* zero and its score otherwise; a text without English marker yields
\* American 0.3, British 0.2, Australian 0.1, in that order.
C20_DefaultSubstitution ==
    KwDone("english") =>
        /\ \A k \in 2..4 : \A i \in DOMAIN kwOut :
              kwOut[i].dialect = EnglishNames[k] =>
                 kwOut[i].confidence =
                    IF scores[EnglishDialects[k]] = 0
                    THEN <<0, 2000, 1000, 1000>>[k]
                    ELSE scores[EnglishDialects[k]]
        /\ NoEnglishMarker(kwText) =>
              /\ Len(kwOut) = 3
              /\ kwOut[1].dialect = "American English"
              /\ kwOut[1].confidence = 3000
              /\ kwOut[2].dialect = "British English"
              /\ kwOut[2].confidence = 2000
              /\ kwOut[3].dialect = "Australian English"
              /\ kwOut[3].confidence = 1000

\* a default beside a score: British scored 0.4, Australian at its default
C20_Witness ==
    /\ KwDone("english")
    /\ scores.british = 4000
    /\ scores.australian = 0
    /\ Len(kwOut) = 3
    /\ kwOut[1].dialect = "British English"
    /\ kwOut[1].confidence = 4000
    /\ kwOut[3].dialect = "Australian English"
    /\ kwOut[3].confidence = 1000

----------------------------------------------------------------------------
(* Two keyword classifications in progress at once.  Each call is cut into  *)
(* the allocation of its scores table, one step for each dictionary entry   *)
(* of the outer forEach, and the result construction; the steps of the two  *)
(* calls interleave in every order.  A JavaScript engine runs each call to  *)
(* completion, which is one of these orders.                                *)

MaxParLen == 1

ParVocabulary == {"ar:eih", "ar:shu", "colour", "mate", "hello"}

\* the kw and cd variables when only interleaved calls are made
KwParked ==
    /\ kwPipeline = "arabic"
    /\ kwText = <<>>
    /\ kwPc = "start"
    /\ scores = NoCall
    /\ kwOut = <<>>
    /\ memo = NoCall

InitPar ==
    /\ KwParked
    /\ CdParked
    /\ UiInitial
    /\ parPipeline \in [Calls -> Pipelines]
    /\ parText \in [Calls -> Texts(ParVocabulary, MaxParLen)]
    /\ parPc = [c \in Calls |-> "start"]
    /\ parIdx = [c \in Calls |-> 1]
    /\ parScores = [c \in Calls |-> NoCall]
    /\ parOut = [c \in Calls |-> <<>>]

\* the dictionary keys in the order Object.entries(keywords) visits them
DialectsOf(p) == IF p = "arabic" THEN ArabicDialects ELSE EnglishDialects

\* one iteration of Object.entries(keywords).forEach: the markers of
\* dialect d are tested and acc, the dialect's score, is raised
scoreDialect(p, text, d, acc) ==
    IF p = "arabic"
    THEN ScoreWords(text, arabicKeywords[d], ArabicWeight, acc)
    ELSE ScoreWords(toLowerCase(text),
                    [i \in DOMAIN englishKeywords[d] |->
                        Lower(englishKeywords[d][i])],
                    EnglishWeight, acc)

\* faulty variant: one list for all calls
SharedList(c) == 1

\* the list a call builds and returns is its own (`const results`, line 82;
\* the array literal, line 124)
ListOf(c) == c

\* `const scores = { ... }`: the call allocates its table
ParBegin(c) ==
    /\ parPc[c] = "start"
    /\ parScores' = [parScores EXCEPT ![c] =
                        IF parPipeline[c] = "arabic"
                        THEN arabicInitScores ELSE englishInitScores]
    /\ parPc' = [parPc EXCEPT ![c] = "scoring"]
    /\ UNCHANGED <<parPipeline, parText, parIdx, parOut, kwVars, cdVars,
                   uiVars>>

\* one dictionary entry is scored into the call's table
ParScore(c) ==
    /\ parPc[c] = "scoring"
    /\ parIdx[c] <= Len(DialectsOf(parPipeline[c]))
    /\ LET d == DialectsOf(parPipeline[c])[parIdx[c]]
       IN  parScores' = [parScores EXCEPT ![c][d] =
                            scoreDialect(parPipeline[c], parText[c], d, @)]
    /\ parIdx' = [parIdx EXCEPT ![c] = @ + 1]
    /\ UNCHANGED <<parPipeline, parText, parPc, parOut, kwVars, cdVars,
                   uiVars>>

\* the result list is built from the call's table and returned
ParBuild(c) ==
    /\ parPc[c] = "scoring"
    /\ parIdx[c] > Len(DialectsOf(parPipeline[c]))
    /\ parOut' = [parOut EXCEPT ![ListOf(c)] =
                     IF parPipeline[c] = "arabic"
                     THEN arabicResults(parScores[c])
                     ELSE englishResults(parScores[c])]
    /\ parPc' = [parPc EXCEPT ![c] = "done"]
    /\ UNCHANGED <<parPipeline, parText, parIdx, parScores, kwVars, cdVars,
                   uiVars>>

NextPar == \E c \in Calls : ParBegin(c) \/ ParScore(c) \/ ParBuild(c)

SpecPar == InitPar /\ [][NextPar]_vars

\* what a call returns when it runs alone
Alone(p, text) ==
    IF p = "arabic"
    THEN classifyArabicByKeywords(text)
    ELSE classifyEnglishByKeywords(text)

\* C15: when keyword classifications of different texts are interleaved in
\* any order, each returns exactly what it returns when run alone.
C15_InterleavedAsAlone ==
    \A c \in Calls :
        parPc[c] = "done" => parOut[c] = Alone(parPipeline[c], parText[c])

\* call 2 has run from start to end, and returned the Levantine result of its
\* own text, while call 1, on another text, is in the middle of its scoring
\* loop with the Egyptian score already in its table
C15_Witness ==
    /\ parPc[1] = "scoring"
    /\ parIdx[1] = 3
    /\ parPc[2] = "done"
    /\ parPipeline[1] = "arabic"
    /\ parPipeline[2] = "arabic"
    /\ parText[1] = <<"ar:eih">>
    /\ parText[2] = <<"ar:shu">>
    /\ parScores[1].egyptian = 3000
    /\ Len(parOut[2]) = 1
    /\ parOut[2][1].dialect = "Levantine Arabic"

----------------------------------------------------------------------------
(* The analyzer page: the DialectClassifier component (lines 18-22, 137-177, *)
(* 233-262, 329-337) with the FeedbackForm it renders (FeedbackForm.tsx,     *)
(* lines 23-80, 84-98, 125, 138, 194, 199-202).  A handler reads the state   *)
(* and props of the render in which its event fired; an awaited call keeps   *)
(* the arguments it was given.                                               *)

MaxMounts == 2

MaxPending == 2

\* values typed into the text area: nothing, white space, a sentence
UiTexts == {<<>>, <<Blank>>, <<"ar:eih">>}

\* the SelectItem values (lines 238-239)
UiLanguages == {"arabic", "english"}

\* values typed into the comment Textarea: nothing, white space, a remark
Comments == {"", " ", "ok"}

\* comment.trim()
TrimComment(m) == IF m = " " THEN "" ELSE m

\* the stars of the rating row (FeedbackForm line 85)
Stars == 1..5

\* the star clicked on the analyzer page
UiStars == {5}

\* typed JavaScript values of a row's nullable columns
NumberVal(n) == [type |-> "number", value |-> n]

StringVal(str) == [type |-> "string", value |-> str]

BooleanVal(b) == [type |-> "boolean", value |-> b]

\* classifyDialect(inputText, selectedLanguage) when the remote call settles
\* with r: the list the promise resolves with (lines 27-46)
classifyDialect(inputText, selectedLanguage, r) ==
    IF TryThrows(r)
    THEN IF FallbackPipeline(selectedLanguage) = "arabic"
         THEN classifyArabicByKeywords(inputText)
         ELSE classifyEnglishByKeywords(inputText)
    ELSE ResultsOrEmpty(r.data)

\* faulty variant: no catch block, the exception leaves classifyDialect
classifyDialectUncaught(inputText, selectedLanguage, r) ==
    IF TryThrows(r)
    THEN [settled |-> "rejected"]
    ELSE [settled |-> "fulfilled", value |-> ResultsOrEmpty(r.data)]

\* How the promise of the async function classifyDialect settles: the return
\* of the try block, or of the catch block (lines 38-46), fulfils it; the
\* keyword functions called in the catch block do not throw.
classifyDialectPromise(inputText, selectedLanguage, r) ==
    [settled |-> "fulfilled",
     value |-> classifyDialect(inputText, selectedLanguage, r)]

\* the arguments handleAnalyze can pass to classifyDialect (line 150)
UiCalls == [text : UiTexts, language : UiLanguages]

\* classifyDialectPromise tabulated over those arguments and the responses
\* of the remote call
PromiseTable ==
    { [call |-> call, response |-> r,
       promise |-> classifyDialectPromise(call.text, call.language, r)] :
        call \in UiCalls, r \in RemoteResponses }

\* the promise classifyDialect returns for a call whose remote call settles
\* with r
PromiseOf(call, r) ==
    (CHOOSE e \in PromiseTable : e.call = call /\ e.response = r).promise

\* classificationResults[i]?.confidence || 0 (lines 154-155), i counted from 1
ScoreAt(list, i) == IF i \in DOMAIN list THEN list[i].confidence ELSE 0

\* the confidence threshold, 0.1 (lines 156, 188)
Threshold == 1000

\* topScore >= (secondScore + 0.1) (line 156)
isHighConfidence(classificationResults) ==
    ScoreAt(classificationResults, 1)
        >= FAdd(ScoreAt(classificationResults, 2), Threshold)

\* the toast of lines 158-161
completionToast(classificationResults) ==
    [title |-> "Analysis complete",
     found |-> Len(classificationResults),
     wording |-> IF isHighConfidence(classificationResults)
                 THEN "High confidence result."
                 ELSE "Multiple possible dialects detected."]

\* getConfidenceLabel (lines 185-194); results[1] is the second result
getConfidenceLabel(confidence, isTopResult, list) ==
    IF /\ isTopResult
       /\ Len(list) > 1
       /\ confidence >= FAdd(ScoreAt(list, 2), Threshold)
       /\ confidence >= 6000
    THEN "High"
    ELSE IF confidence >= 7000 THEN "High"
    ELSE IF confidence >= 4000 THEN "Medium"
    ELSE "Low"

\* showFeedback && results.length > 0: the FeedbackForm is rendered
Mounted == showFeedback /\ uiResults # <<>>

\* The FeedbackForm state after a step that leaves the form rendered or not
\* (after) and, where it stays rendered, with the given values.  State of an
\* unmounted form is discarded; a form that mounts starts from lines 23-26.
FormAfter(after, r, c, m, sub) ==
    /\ rating' = IF after /\ Mounted THEN r ELSE 0
    /\ isCorrect' = IF after /\ Mounted THEN c ELSE Null
    /\ comment' = IF after /\ Mounted THEN m ELSE ""
    /\ isSubmitting' = IF after /\ Mounted THEN sub ELSE FALSE
    /\ formGen' = IF after /\ ~Mounted THEN formGen + 1 ELSE formGen

InitUi ==
    /\ KwParked
    /\ CdParked
    /\ ParParked
    /\ UiInitial

\* Textarea onChange (line 250)
SetText(t) ==
        /\ uiText' = t
        /\ UNCHANGED <<uiLanguage, isAnalyzing, uiResults, showFeedback, toast,
                       pending, resultsOf, formVars, inserts,
                       feedbackSubmitted,
                       kwVars, cdVars, parVars>>

\* Select onValueChange (line 233)
SetLanguage(l) ==
        /\ uiLanguage' = l
        /\ UNCHANGED <<uiText, isAnalyzing, uiResults, showFeedback, toast,
                       pending, resultsOf, formVars, inserts,
                       feedbackSubmitted,
                       kwVars, cdVars, parVars>>

\* faulty variant: the text is not trimmed
NotEmpty(t) == t # <<>>

\* text.trim() is truthy
HasText(t) == Trim(t) # <<>>

\* faulty variant: no setShowFeedback(false)
handleAnalyzeKeepsForm ==
    IF ~HasText(uiText)
    THEN /\ toast' = Toast("Please enter some text",
                         "Enter a sentence to analyze its dialect.")
         /\ UNCHANGED <<uiText, uiLanguage, isAnalyzing, uiResults,
                        showFeedback, pending, resultsOf, formVars, inserts,
                        feedbackSubmitted>>
    ELSE /\ isAnalyzing' = TRUE
         /\ pending' = Append(pending, [text |-> uiText,
                                        language |-> uiLanguage])
         /\ UNCHANGED <<uiText, uiLanguage, uiResults, showFeedback, toast,
                        resultsOf, formVars, inserts, feedbackSubmitted>>

\* handleAnalyze up to its await (lines 137-150)
handleAnalyze ==
    IF ~HasText(uiText)
    THEN /\ toast' = Toast("Please enter some text",
                         "Enter a sentence to analyze its dialect.")
         /\ UNCHANGED <<uiText, uiLanguage, isAnalyzing, uiResults,
                        showFeedback, pending, resultsOf, formVars, inserts,
                        feedbackSubmitted>>
    ELSE /\ isAnalyzing' = TRUE
         /\ showFeedback' = FALSE
         /\ pending' = Append(pending, [text |-> uiText,
                                        language |-> uiLanguage])
         /\ FormAfter(FALSE, rating, isCorrect, comment, isSubmitting)
         /\ UNCHANGED <<uiText, uiLanguage, uiResults, toast, resultsOf,
                        inserts, feedbackSubmitted>>

\* faulty variant: disabled={!text.trim()}
EnabledByText == HasText(uiText)

\* the Analyze button is not disabled (line 260)
AnalyzeEnabled == ~(isAnalyzing \/ ~HasText(uiText))

\* a click on the Analyze button (lines 258-262)
ClickAnalyze ==
    /\ AnalyzeEnabled
    /\ formGen < MaxMounts
    /\ handleAnalyze
    /\ UNCHANGED <<kwVars, cdVars, parVars>>

\* faulty variant: no finally block
StillAnalyzing == isAnalyzing

\* finally { setIsAnalyzing(false) } (lines 170-172)
IsAnalyzingFinally == FALSE

\* handleAnalyze after its await (lines 150-172): an awaited classifyDialect
\* call settles.  A fulfilled promise runs the rest of the try block, a
\* rejected one the catch block; the finally block runs in both cases.
AnalysisSettles ==
    \E k \in DOMAIN pending, r \in RemoteResponses :
        LET call == pending[k]
            promise == PromiseOf(call, r)
            after == IF promise.settled = "fulfilled"
                     THEN promise.value # <<>>
                     ELSE showFeedback /\ uiResults # <<>>
        IN  /\ IF promise.settled = "fulfilled"
               THEN /\ uiResults' = promise.value
                    /\ resultsOf' = call
                    /\ showFeedback' = TRUE
                    /\ toast' = completionToast(promise.value)
               ELSE /\ toast' = Toast("Analysis failed",
                                      "There was an error analyzing the text. Please try again.")
                    /\ UNCHANGED <<uiResults, resultsOf, showFeedback>>
            /\ isAnalyzing' = IsAnalyzingFinally
            /\ pending' = [j \in 1..(Len(pending) - 1) |->
                              IF j < k THEN pending[j] ELSE pending[j + 1]]
            /\ FormAfter(after, rating, isCorrect, comment, isSubmitting)
            /\ UNCHANGED <<uiText, uiLanguage, inserts, feedbackSubmitted,
                           kwVars, cdVars, parVars>>

\* a click on a star (FeedbackForm lines 87, 161)
ClickStar(star) ==
        /\ Mounted
        /\ rating' = star
        /\ UNCHANGED <<uiText, uiLanguage, isAnalyzing, uiResults,
                       showFeedback, toast, pending, resultsOf, isCorrect,
                       comment, isSubmitting, formGen, inserts, feedbackSubmitted,
                       kwVars, cdVars, parVars>>

\* a click on Correct or Incorrect (FeedbackForm lines 125, 138)
ClickCorrect(b) ==
        /\ Mounted
        /\ isCorrect' = BooleanVal(b)
        /\ UNCHANGED <<uiText, uiLanguage, isAnalyzing, uiResults,
                       showFeedback, toast, pending, resultsOf, rating,
                       comment, isSubmitting, formGen, inserts, feedbackSubmitted,
                       kwVars, cdVars, parVars>>

\* the comment Textarea onChange (FeedbackForm line 194)
SetComment(m) ==
        /\ Mounted
        /\ comment' = m
        /\ UNCHANGED <<uiText, uiLanguage, isAnalyzing, uiResults,
                       showFeedback, toast, pending, resultsOf, rating,
                       isCorrect, isSubmitting, formGen, inserts, feedbackSubmitted,
                       kwVars, cdVars, parVars>>

\* faulty variant: the rating as it is
rawRating(r) == NumberVal(r)

\* rating > 0 ? rating : null (FeedbackForm line 50)
userRating(r) == IF r > 0 THEN NumberVal(r) ELSE Null

\* the object passed to insert (FeedbackForm lines 45-53), built from the
\* props and state of the current render
FeedbackRow ==
    LET topResult == uiResults[1]
    IN  [text_analyzed |-> uiText,
         language |-> uiLanguage,
         predicted_dialect |-> topResult.dialect,
         confidence |-> topResult.confidence,
         user_rating |-> userRating(rating),
         user_comment |-> IF TrimComment(comment) = "" THEN Null
                          ELSE StringVal(TrimComment(comment)),
         is_correct |-> isCorrect]

\* faulty variant: a comment counts as feedback
NothingEntered == rating = 0 /\ isCorrect = Null /\ comment = ""

\* rating === 0 && isCorrect === null (FeedbackForm line 30)
NoFeedback == rating = 0 /\ isCorrect = Null

\* handleSubmitFeedback up to its await (FeedbackForm lines 29-53)
handleSubmitFeedback ==
    IF NoFeedback
    THEN /\ toast' = Toast("Please provide feedback",
                         "Rate the accuracy or mark if the result is correct/incorrect.")
         /\ UNCHANGED <<uiText, uiLanguage, isAnalyzing, uiResults,
                        showFeedback, pending, resultsOf, formVars, inserts,
                        feedbackSubmitted>>
    ELSE /\ isSubmitting' = TRUE
         /\ inserts' = Append(inserts, [gen |-> formGen, row |-> FeedbackRow,
                                         of |-> resultsOf])
         /\ UNCHANGED <<uiText, uiLanguage, isAnalyzing, uiResults,
                        showFeedback, toast, pending, resultsOf, rating,
                        isCorrect, comment, formGen, feedbackSubmitted>>

\* the Submit Feedback button is not disabled (FeedbackForm line 201)
SubmitEnabled == ~(isSubmitting \/ (rating = 0 /\ isCorrect = Null))

\* a click on the Submit Feedback button (FeedbackForm lines 199-202)
ClickSubmit ==
    /\ Mounted
    /\ SubmitEnabled
    /\ handleSubmitFeedback
    /\ UNCHANGED <<kwVars, cdVars, parVars>>

\* what the awaited insert settles with: { error: null }, { error } or a
\* rejected promise
InsertResponses == {"ok", "error", "rejected"}

\* faulty variant: no `if (error) throw error`
OnlyRejectionThrows(resp) == resp = "rejected"

\* whether the try block throws after the await (FeedbackForm lines 55-58):
\* the promise rejected, or `if (error) throw error`
InsertThrows(resp) == resp \in {"error", "rejected"}

\* handleSubmitFeedback after its await (FeedbackForm lines 55-79), the
\* insert settling with resp.  The state setters act on the form instance
\* that started the insert, if it is still rendered; onFeedbackSubmitted is
\* the parent's handleFeedbackSubmitted (DialectClassifier lines 175-177).
InsertSettlesWith(resp) ==
    \E k \in DOMAIN inserts :
        LET same == Mounted /\ inserts[k].gen = formGen
        IN  /\ inserts' = [j \in 1..(Len(inserts) - 1) |->
                              IF j < k THEN inserts[j] ELSE inserts[j + 1]]
            /\ IF ~InsertThrows(resp)
               THEN /\ toast' = Toast("Thank you for your feedback!",
                                      "Your input helps improve the dialect classifier.")
                    /\ showFeedback' = FALSE
                    /\ feedbackSubmitted' = feedbackSubmitted + 1
                    /\ FormAfter(FALSE, rating, isCorrect, comment,
                                 isSubmitting)
               ELSE /\ toast' = Toast("Failed to submit feedback",
                                      "Please try again later.")
                    /\ showFeedback' = showFeedback
                    /\ feedbackSubmitted' = feedbackSubmitted
                    /\ FormAfter(Mounted, rating, isCorrect, comment,
                                 IF same THEN FALSE ELSE isSubmitting)
            /\ UNCHANGED <<uiText, uiLanguage, isAnalyzing, uiResults,
                           pending, resultsOf, kwVars, cdVars, parVars>>

InsertSettles == \E resp \in InsertResponses : InsertSettlesWith(resp)

\* The page in use: text and language are edited, analyses are started from
\* the button, and the form is filled in by a star rating and submitted.
NextUi ==
    \/ \E t \in UiTexts : SetText(t)
    \/ \E l \in UiLanguages : SetLanguage(l)
    \/ ClickAnalyze
    \/ AnalysisSettles
    \/ \E star \in UiStars : ClickStar(star)
    \/ ClickSubmit
    \/ InsertSettles

SpecUi == InitUi /\ [][NextUi]_vars

\* The page when every awaited classifyDialect call settles: the remote call
\* completes, with a response or an error.
SpecUiLive == SpecUi /\ WF_vars(AnalysisSettles)

\* handleAnalyze called whatever the state of the button
InvokeHandleAnalyze ==
    /\ Len(pending) < MaxPending
    /\ formGen < MaxMounts
    /\ handleAnalyze
    /\ UNCHANGED <<kwVars, cdVars, parVars>>

\* The handler by itself: handleAnalyze is called in every state of the page,
\* also where the button is disabled.
NextHandler ==
    \/ \E t \in UiTexts : SetText(t)
    \/ \E l \in UiLanguages : SetLanguage(l)
    \/ InvokeHandleAnalyze
    \/ AnalysisSettles

SpecHandler == InitUi /\ [][NextHandler]_vars

\* the page after an Arabic analysis of a sentence has shown the results of
\* the edge function: the FeedbackForm has just mounted
InitForm ==
    /\ KwParked
    /\ CdParked
    /\ ParParked
    /\ uiText = <<"ar:eih">>
    /\ uiLanguage = "arabic"
    /\ isAnalyzing = FALSE
    /\ uiResults = RemoteResults
    /\ showFeedback = TRUE
    /\ toast = completionToast(RemoteResults)
    /\ pending = <<>>
    /\ resultsOf = [text |-> <<"ar:eih">>, language |-> "arabic"]
    /\ FormInitial
    /\ formGen = 1
    /\ inserts = <<>>
    /\ feedbackSubmitted = 0

\* The form in use: every control of the FeedbackForm, the page left alone.
NextForm ==
    \/ \E star \in Stars : ClickStar(star)
    \/ \E b \in BOOLEAN : ClickCorrect(b)
    \/ \E m \in Comments : SetComment(m)
    \/ ClickSubmit
    \/ InsertSettles

SpecForm == InitForm /\ [][NextForm]_vars

\* the inserts awaited at once when handleSubmitFeedback is called directly
MaxInserts == 2

\* handleSubmitFeedback called whatever the state of the button; the form is
\* rendered, so results is not empty (FeedbackForm line 102)
InvokeHandleSubmitFeedback ==
    /\ Mounted
    /\ Len(inserts) < MaxInserts
    /\ handleSubmitFeedback
    /\ UNCHANGED <<kwVars, cdVars, parVars>>

\* The submit handler by itself: handleSubmitFeedback is called in every
\* state of the form, also where the button is disabled.
NextSubmit ==
    \/ \E star \in UiStars : ClickStar(star)
    \/ \E b \in BOOLEAN : ClickCorrect(b)
    \/ \E m \in Comments : SetComment(m)
    \/ InvokeHandleSubmitFeedback
    \/ InsertSettles

SpecSubmit == InitForm /\ [][NextSubmit]_vars

\* C16: every feedback row is keyed to the classification it rates: its
\* text_analyzed and language are the text and language that were passed to
\* the analysis whose top result it reports, also when the user edits the
\* text or switches the language between the analysis and the submission.
C16_RowKeyedToAnalysis ==
    \A i \in DOMAIN inserts :
        /\ inserts[i].row.text_analyzed = inserts[i].of.text
        /\ inserts[i].row.language = inserts[i].of.language

\* C14: handleAnalyze called with a text that is empty after trimming never
\* calls classifyDialect and leaves results, isAnalyzing and showFeedback
\* unchanged.
C14_BlankTextRejected ==
    [][(Trim(uiText) = <<>> /\ InvokeHandleAnalyze) =>
          /\ pending' = pending
          /\ uiResults' = uiResults
          /\ isAnalyzing' = isAnalyzing
          /\ showFeedback' = showFeedback]_vars

\* the handler has run on a text of white space only, with results on
\* display, the form shown and another analysis awaited: it showed its toast
\* and all of that is as it was
C14_Witness ==
    /\ toast.title = "Please enter some text"
    /\ uiText = <<Blank>>
    /\ uiResults # <<>>
    /\ showFeedback
    /\ Len(pending) = 1

----------------------------------------------------------------------------
(* Properties of the analyzer page (SpecUi) *)

\* C21: classifyDialect never rejects: whatever the remote call settles with,
\* the awaited call resolves with a list, which becomes `results` together
\* with the completion toast; the "Analysis failed" toast is never shown.
C21_NeverRejects ==
    /\ [](toast.title # "Analysis failed")
    /\ [][Len(pending') < Len(pending) =>
             /\ toast'.title = "Analysis complete"
             /\ \E k \in DOMAIN pending :
                   /\ resultsOf' = pending[k]
                   /\ \E r \in RemoteResponses :
                         uiResults' = classifyDialect(pending[k].text,
                                                      pending[k].language, r)
             /\ DOMAIN uiResults' = 1..Len(uiResults')]_vars

\* an analysis whose remote call failed has completed with the keyword
\* result of its text
C21_Witness ==
    /\ toast.title = "Analysis complete"
    /\ ~isAnalyzing
    /\ resultsOf = [text |-> <<"ar:eih">>, language |-> "arabic"]
    /\ Len(uiResults) = 1
    /\ uiResults[1].dialect = "Egyptian Arabic"
    /\ uiResults[1].confidence = 3000

----------------------------------------------------------------------------
(* Properties of the feedback form (SpecForm) *)

\* user_rating INTEGER CHECK (user_rating >= 1 AND user_rating <= 5): the
\* constraint of the dialect_feedback table; a CHECK passes on NULL
CheckUserRating(v) == v = Null \/ (v.value >= 1 /\ v.value <= 5)

\* C22: after any sequence of star clicks, submissions and resets the rating
\* state is in 0..5, and every row handed to the dialect_feedback table has a
\* user_rating that is null or in 1..5, so the table's CHECK constraint
\* accepts it.
C22_RatingInRange ==
    /\ rating \in 0..5
    /\ \A i \in DOMAIN inserts :
          /\ \/ inserts[i].row.user_rating = Null
             \/ inserts[i].row.user_rating \in {NumberVal(n) : n \in 1..5}
          /\ CheckUserRating(inserts[i].row.user_rating)

\* a row without a star rating, sent on a correctness mark alone, carries
\* null, while the form has since been given one star
C22_Witness ==
    /\ Len(inserts) = 1
    /\ inserts[1].row.user_rating = Null
    /\ inserts[1].row.is_correct = BooleanVal(FALSE)
    /\ rating = 1

----------------------------------------------------------------------------
(* Further properties of the keyword pipelines (SpecKw), second part *)

\* C23: classifyEnglishByKeywords returns exactly 3 results for every text:
\* each of the four candidates is at least 0.1, so the `confidence > 0.05`
\* filter removes none and the cut to three always has four to choose from.
C23_EnglishExactlyThree ==
    KwDone("english") =>
        /\ Len(kwOut) = 3
        /\ \A k \in 1..4 : EnglishCandidate(k) >= 1000 /\ EnglishCandidate(k) > 500

\* only a Canadian marker matched: Canadian, American and British are
\* returned; Australian, at its default 0.1, passed the filter and was cut
C23_Witness ==
    /\ KwDone("english")
    /\ EnglishMatched("canadian", kwText) # {}
    /\ EnglishMatched("british", kwText) = {}
    /\ EnglishMatched("australian", kwText) = {}
    /\ EnglishMatched("american", kwText) = {}
    /\ Len(kwOut) = 3
    /\ kwOut[1].dialect = "Canadian English"
    /\ kwOut[3].dialect = "British English"
    /\ EnglishCandidate(3) = 1000

----------------------------------------------------------------------------
(* Properties of the analyzer page (SpecUi), second part *)

\* C24: at most one classification is in flight at any time, and isAnalyzing
\* is true exactly while one is in flight.
C24_OneInFlight ==
    /\ Len(pending) <= 1
    /\ isAnalyzing <=> pending # <<>>

\* one analysis is awaited and the text area holds a sentence: only
\* isAnalyzing keeps the button disabled
C24_Witness ==
    /\ isAnalyzing
    /\ Len(pending) = 1
    /\ Trim(uiText) # <<>>
    /\ uiResults # <<>>

\* C25: every handleAnalyze that passes the empty-text guard eventually ends
\* with isAnalyzing = false, whatever the remote call settles with, provided
\* it settles.
C25_AnalysisEnds == isAnalyzing ~> ~isAnalyzing

\* an analysis whose remote call succeeded has ended
C25_Witness ==
    /\ ~isAnalyzing
    /\ pending = <<>>
    /\ uiResults = RemoteResults
    /\ resultsOf # NoCall

\* C26: while an analysis is in flight the feedback form is hidden, and
\* showFeedback is true only once the results of the latest analysis are in
\* `results`.
C26_FormHiddenInFlight ==
    /\ isAnalyzing => ~showFeedback
    /\ showFeedback =>
          /\ pending = <<>>
          /\ resultsOf # NoCall
          /\ \E r \in RemoteResponses :
                uiResults = classifyDialect(resultsOf.text,
                                            resultsOf.language, r)

\* a second analysis is awaited: the results of the first are still on
\* display and the form, shown after the first, is hidden
C26_Witness ==
    /\ isAnalyzing
    /\ ~showFeedback
    /\ uiResults # <<>>
    /\ formGen = 1
    /\ resultsOf # NoCall

\* C27: a feedback submission only hides the form of the results it was
\* submitted against: a step in which a settling insert turns showFeedback
\* from true to false is the settling of an insert issued by the form that is
\* on display.
C27_HidesOwnFormOnly ==
    [][(showFeedback /\ ~showFeedback' /\ Len(inserts') < Len(inserts)) =>
          \E k \in DOMAIN inserts :
              /\ inserts' = [j \in 1..(Len(inserts) - 1) |->
                                IF j < k THEN inserts[j] ELSE inserts[j + 1]]
              /\ inserts[k].gen = formGen]_vars

----------------------------------------------------------------------------
(* Properties of the submit handler (SpecSubmit) *)

\* C28: an insert is issued only when the user gave feedback (rating > 0 or
\* isCorrect not null) and results is non-empty; with rating = 0 and
\* isCorrect = null handleSubmitFeedback issues no insert and leaves rating,
\* isCorrect, comment and isSubmitting unchanged.
C28_InsertOnlyWithFeedback ==
    /\ [][Len(inserts') > Len(inserts) =>
             /\ rating > 0 \/ isCorrect # Null
             /\ uiResults # <<>>]_vars
    /\ [][(rating = 0 /\ isCorrect = Null /\ InvokeHandleSubmitFeedback) =>
             /\ inserts' = inserts
             /\ rating' = rating
             /\ isCorrect' = isCorrect
             /\ comment' = comment
             /\ isSubmitting' = isSubmitting]_vars

\* the handler was called on a form holding a comment only: it answered
\* with the toast and nothing is awaited
C28_Witness ==
    /\ toast.title = "Please provide feedback"
    /\ Mounted
    /\ rating = 0
    /\ isCorrect = Null
    /\ comment = "ok"
    /\ ~isSubmitting
    /\ inserts = <<>>

----------------------------------------------------------------------------
(* Properties of the feedback form (SpecForm), second part *)

\* C29: when the insert succeeds the form is reset (rating 0, isCorrect null,
\* comment empty) and onFeedbackSubmitted is called exactly once; when it
\* fails rating, isCorrect and comment are unchanged and onFeedbackSubmitted
\* is not called; in both cases isSubmitting ends false.
C29_SubmissionOutcome ==
    [][\A resp \in InsertResponses :
          InsertSettlesWith(resp) =>
              /\ ~isSubmitting'
              /\ IF resp = "ok"
                 THEN /\ rating' = 0
                      /\ isCorrect' = Null
                      /\ comment' = ""
                      /\ feedbackSubmitted' = feedbackSubmitted + 1
                      /\ ~showFeedback'
                 ELSE /\ rating' = rating
                      /\ isCorrect' = isCorrect
                      /\ comment' = comment
                      /\ feedbackSubmitted' = feedbackSubmitted
                      /\ showFeedback' = showFeedback]_vars

\* an insert has failed: the form still holds what the user entered and can
\* be submitted again
C29_Witness ==
    /\ toast.title = "Failed to submit feedback"
    /\ Mounted
    /\ rating = 3
    /\ isCorrect = BooleanVal(TRUE)
    /\ comment = "ok"
    /\ ~isSubmitting
    /\ inserts = <<>>
    /\ feedbackSubmitted = 0

----------------------------------------------------------------------------
(* Properties of the analyzer page (SpecUi), third part *)

\* C30: the confidence wording is consistent: whenever the completion toast
\* of handleAnalyze says "High confidence result.", the badge that
\* getConfidenceLabel gives the top result on display is "High".
C30_WordingConsistent ==
    (/\ toast.title = "Analysis complete"
     /\ toast.wording = "High confidence result."
     /\ uiResults # <<>>) =>
        getConfidenceLabel(uiResults[1].confidence, TRUE, uiResults) = "High"

====
